---- MODULE Spec2Model ----
(***************************************************************************)
(* Model of src/utils/local-rest-api.ts: placing a note in a remote vault  *)
(* over the Local REST API.  Strings are sequences of one-character        *)
(* strings, so that concatenation, endsWith, startsWith, percent-encoding  *)
(* and number formatting are computed the way the code computes them.      *)
(*                                                                         *)
(* The repository also holds an earlier revision of this module            *)
(* (src/unnamed/part_000) that has no checkFileExists and no               *)
(* findAvailableFileName: it PATCHes for every append and prepend          *)
(* behaviour and POSTs a create to the unsuffixed name.  The model follows *)
(* the revision with the existence probe, src/utils/local-rest-api.ts.     *)
(***************************************************************************)
EXTENDS Integers, Sequences, FiniteSets

VARIABLES generalSettings, vaultDocs, now, inv, log

vars == <<generalSettings, vaultDocs, now, inv, log>>

(***************************************************************************)
(* Bounds of the model.                                                    *)
(***************************************************************************)
\* The safety limit of findAvailableFileName's loop (1000 in the source),
\* scaled down so that the timestamp fallback is reached.
SafetyLimit == 3
\* How many milliseconds the clock may advance during a run.
MaxTicks == 1
\* How many invocations of createNoteViaLocalRestApi a run holds.
MaxInv == 3

\* Milliseconds in a day, as Date.prototype.toISOString counts them.
MsPerDay == 86400000
\* The clock starts one millisecond before midnight UTC of 1970-01-01.
StartTime == MsPerDay - 1

Ids == 1..MaxInv

(***************************************************************************)
(* Strings.                                                                *)
(***************************************************************************)
Last(s) == s[Len(s)]

EndsWith(s, c) == Len(s) > 0 /\ Last(s) = c

StartsWith(s, c) == Len(s) > 0 /\ s[1] = c

DigitChars == <<"0", "1", "2", "3", "4", "5", "6", "7", "8", "9">>

\* `${n}` for a non-negative integer n: its decimal digits.
RECURSIVE NumberToString(_)
NumberToString(n) == IF n < 10 THEN <<DigitChars[n + 1]>>
               ELSE NumberToString(n \div 10) \o <<DigitChars[(n % 10) + 1]>>

\* padStart(w, "0") of the decimal digits of n.
RECURSIVE PadZero(_, _)
PadZero(s, w) == IF Len(s) >= w THEN s ELSE PadZero(<<"0">> \o s, w)

\* new Date(t).toISOString() for an instant t of January 1970.
ToISOString(t) ==
    LET day == t \div MsPerDay
        ms  == t % MsPerDay
    IN  <<"1", "9", "7", "0", "-", "0", "1", "-">>
        \o PadZero(NumberToString(day + 1), 2) \o <<"T">>
        \o PadZero(NumberToString(ms \div 3600000), 2) \o <<":">>
        \o PadZero(NumberToString((ms \div 60000) % 60), 2) \o <<":">>
        \o PadZero(NumberToString((ms \div 1000) % 60), 2) \o <<".">>
        \o PadZero(NumberToString(ms % 1000), 3) \o <<"Z">>

\* s.split(sep)[0]: the part of s before the first sep, all of s without one.
RECURSIVE SplitFirst(_, _)
SplitFirst(s, sep) == IF s = <<>> \/ Head(s) = sep THEN <<>>
                      ELSE <<Head(s)>> \o SplitFirst(Tail(s), sep)

\* encodeURIComponent of one character: letters, digits and - _ . ! ~ * ' ( )
\* are kept, every other character is percent-encoded.
EncodeChar(c) == CASE c = "/"  -> <<"%", "2", "F">>
                   [] c = " "  -> <<"%", "2", "0">>
                   [] c = "?"  -> <<"%", "3", "F">>
                   [] c = "{"  -> <<"%", "7", "B">>
                   [] c = ":"  -> <<"%", "3", "A">>
                   [] OTHER    -> <<c>>

RECURSIVE EncodeURIComponent(_)
EncodeURIComponent(s) == IF s = <<>> THEN <<>>
                         ELSE EncodeChar(Head(s)) \o EncodeURIComponent(Tail(s))

\* Characters a file name may not hold.
IllegalChars == {"?", ":", "/"}

IsLegalChar(c) == c \notin IllegalChars

\* sanitizeFileName of string-utils: the name without its illegal characters.
SanitizeFileName(noteName) == SelectSeq(noteName, IsLegalChar)

DotMd == <<".", "m", "d">>

VaultSegment == <<"/", "v", "a", "u", "l", "t", "/">>

\* JSON.stringify of a string of the model's alphabet (nothing to escape).
JsonString(s) == <<"\"">> \o s \o <<"\"">>

\* JSON.stringify({content: fileContent, position: position}).
JsonEnvelope(fileContent, position) ==
    <<"{">> \o JsonString(<<"c", "o", "n", "t", "e", "n", "t">>) \o <<":">>
    \o JsonString(fileContent) \o <<",">>
    \o JsonString(<<"p", "o", "s", "i", "t", "i", "o", "n">>) \o <<":">>
    \o JsonString(position) \o <<"}">>

PositionEnd == <<"e", "n", "d">>

PositionStart == <<"s", "t", "a", "r", "t">>

(***************************************************************************)
(* Configuration and the availability gate.                                *)
(***************************************************************************)
\* Mutant of the gate: the credential is not looked at.
GateIgnoringKey ==
    IF ~generalSettings.localRestApiEnabled THEN FALSE
    ELSE IF generalSettings.localRestApiUrl = <<>> THEN FALSE
    ELSE TRUE

\* isLocalRestApiAvailable: enabled, and both the URL and the key non-empty.
IsLocalRestApiAvailable ==
    IF ~generalSettings.localRestApiEnabled THEN FALSE
    ELSE IF generalSettings.localRestApiUrl = <<>>
            \/ generalSettings.localRestApiKey = <<>> THEN FALSE
    ELSE TRUE

\* The URL checkFileExists probes.
CheckFileExistsUrl(vault, filePath) ==
    IF vault # <<>>
    THEN generalSettings.localRestApiUrl \o VaultSegment
         \o EncodeURIComponent(vault) \o <<"/">> \o EncodeURIComponent(filePath)
    ELSE generalSettings.localRestApiUrl \o VaultSegment
         \o EncodeURIComponent(filePath)

\* Mutant of buildUrl: the vault segment always written, as in the earlier
\* revision (src/unnamed/part_000), also for an empty vault.
BuildUrlAlwaysVault(vault, targetPath) ==
    generalSettings.localRestApiUrl \o VaultSegment
    \o EncodeURIComponent(vault) \o <<"/">> \o EncodeURIComponent(targetPath)

\* buildUrl, the helper closed over vault in createNoteViaLocalRestApi.
BuildUrl(vault, targetPath) ==
    IF vault # <<>>
    THEN generalSettings.localRestApiUrl \o VaultSegment
         \o EncodeURIComponent(vault) \o <<"/">> \o EncodeURIComponent(targetPath)
    ELSE generalSettings.localRestApiUrl \o VaultSegment
         \o EncodeURIComponent(targetPath)

\* Mutant of the normalisation: a slash appended to every non-empty path.
AlwaysAppendSlash(path) == IF path # <<>> THEN path \o <<"/">> ELSE path

\* if (path && !path.endsWith('/')) path += '/'
NormalizePath(path) ==
    IF path # <<>> /\ ~EndsWith(path, "/") THEN path \o <<"/">> ELSE path

\* The Content-Type header chosen from the body.
ContentType(body) ==
    IF StartsWith(body, "{") THEN "application/json" ELSE "text/markdown"

\* response.ok
Ok(status) == status \in 200..299

(***************************************************************************)
(* Requests.  log[i] is the sequence of requests invocation i has issued,  *)
(* each with the outcome it got once it completed.                         *)
(***************************************************************************)
NoText == <<>>

\* The GET of checkFileExists.
ProbeRequest(vault, filePath) ==
    [method |-> "GET", url |-> CheckFileExistsUrl(vault, filePath),
     body |-> NoText, contentType |-> "none",
     auth |-> generalSettings.localRestApiKey,
     state |-> "pending", status |-> 0, text |-> NoText]

\* The fetch that ends createNoteViaLocalRestApi.
MutatingRequest(method, url, body) ==
    [method |-> method, url |-> url, body |-> body,
     contentType |-> ContentType(body),
     auth |-> generalSettings.localRestApiKey,
     state |-> "pending", status |-> 0, text |-> NoText]

Behaviors == {"create", "append-specific", "prepend-specific", "overwrite",
              "append-daily", "prepend-daily"}

IsDailyNote(behavior) == behavior = "append-daily" \/ behavior = "prepend-daily"

NoResult == [success |-> FALSE, error |-> <<"pending">>]

NotAvailable == [success |-> FALSE, error |-> <<"Local REST API not available">>]

IdleInvocation ==
    [pc |-> "idle", fileContent |-> NoText, noteName |-> NoText,
     pathArg |-> NoText, path |-> NoText, vault |-> NoText,
     behavior |-> "create", formattedNoteName |-> NoText, at |-> "none",
     filePath |-> NoText, counter |-> 0, date |-> 0, timestamp |-> 0,
     fileExists |-> FALSE, warnings |-> 0, result |-> NoResult]

(***************************************************************************)
(* The remote service: what a request gets back and what it does to the    *)
(* documents the vault holds (vaultDocs, the set of their URLs).           *)
(***************************************************************************)
Response(status, text) == [kind |-> "response", status |-> status, text |-> text]

Exception(message) == [kind |-> "exception", status |-> 0, text |-> message]

ErrorText == <<"e">>

ExceptionMessage == <<"m">>

\* A healthy service answers a GET 200 for a document it holds, else 404.
RemoteGet(url) == IF url \in vaultDocs THEN Response(200, NoText)
                  ELSE Response(404, ErrorText)

\* A failing probe: a non-2xx status other than 404, or a transport error.
ProbeFaults == {Response(500, ErrorText), Exception(ExceptionMessage)}

\* A healthy service creates on POST, replaces on PUT, and merges on PATCH
\* into a document it holds.
RemoteWrite(req) ==
    CASE req.method = "POST" ->
           [outcome |-> Response(204, NoText), docs |-> vaultDocs \cup {req.url}]
      [] req.method = "PUT" ->
           [outcome |-> Response(204, NoText), docs |-> vaultDocs \cup {req.url}]
      [] OTHER ->
           IF req.url \in vaultDocs
           THEN [outcome |-> Response(200, NoText), docs |-> vaultDocs]
           ELSE [outcome |-> Response(404, ErrorText), docs |-> vaultDocs]

\* A failing write: the service rejects it, or the transport fails.
WriteFaults == {[outcome |-> Response(500, ErrorText), docs |-> vaultDocs],
                [outcome |-> Exception(ExceptionMessage), docs |-> vaultDocs]}

(***************************************************************************)
(* checkFileExists, findAvailableFileName and the placement plan.          *)
(***************************************************************************)
\* Mutant of checkFileExists: the answer is kept in a variable that every
\* invocation reads, and a "present" seen by any of them sticks.
ProbeSharedAnswer(o) ==
    \/ \E j \in 1..MaxInv : inv[j].fileExists
    \/ (o.kind = "response" /\ Ok(o.status))

\* Mutant of checkFileExists: only a 404 means absent.
ProbeErrorMeansPresent(o) ==
    IF o.kind = "exception" THEN TRUE
    ELSE IF o.status = 404 THEN FALSE
    ELSE TRUE

\* Mutant of checkFileExists: false whatever the GET answered.
ProbeAlwaysAbsent(o) == FALSE

\* What checkFileExists returns for the outcome o of its GET.
CheckFileExists(o) ==
    IF o.kind = "exception" THEN FALSE
    ELSE IF Ok(o.status) THEN TRUE
    ELSE FALSE

\* Mutant of checkFileExists: a warning for every answer that is not 2xx.
WarnsOnEveryFalse(o) ==
    IF o.kind = "exception" THEN TRUE
    ELSE IF Ok(o.status) THEN FALSE
    ELSE TRUE

\* Whether checkFileExists calls console.warn for the outcome o.
CheckFileExistsWarns(o) ==
    IF o.kind = "exception" THEN TRUE
    ELSE IF Ok(o.status) THEN FALSE
    ELSE IF o.status = 404 THEN FALSE
    ELSE TRUE

\* The candidates of findAvailableFileName: unsuffixed for counter 0.
Candidate(path, baseName, counter) ==
    IF counter = 0 THEN path \o baseName \o DotMd
    ELSE path \o baseName \o <<" ">> \o NumberToString(counter) \o DotMd

\* Mutant of the fallback: the limit as the suffix, in place of the timestamp.
FallbackWithLimit(path, baseName, timestamp) ==
    path \o baseName \o <<" ">> \o NumberToString(SafetyLimit) \o DotMd

\* The fallback of findAvailableFileName.
FallbackName(path, baseName, timestamp) ==
    path \o baseName \o <<" ">> \o NumberToString(timestamp) \o DotMd

\* Mutant of findAvailableFileName: the unsuffixed name, whatever the probe
\* said, as in the earlier revision (src/unnamed/part_000, lines 132-136).
FindWithoutSuffix(path, baseName, counter, fileExists, timestamp) ==
    [return |-> TRUE, filePath |-> Candidate(path, baseName, 0), counter |-> counter,
     timestamp |-> 0]

\* Mutant of findAvailableFileName: the name after the one reported absent.
FindReturnsNext(path, baseName, counter, fileExists, timestamp) ==
    IF ~fileExists
    THEN [return |-> TRUE, filePath |-> Candidate(path, baseName, counter + 1),
          counter |-> counter, timestamp |-> 0]
    ELSE IF counter + 1 < SafetyLimit
    THEN [return |-> FALSE, filePath |-> Candidate(path, baseName, counter + 1),
          counter |-> counter + 1, timestamp |-> 0]
    ELSE [return |-> TRUE, filePath |-> FallbackName(path, baseName, timestamp),
          counter |-> counter + 1, timestamp |-> timestamp]

\* Mutant of findAvailableFileName: the test of the probe's answer inverted.
FindReturnsPresent(path, baseName, counter, fileExists, timestamp) ==
    IF fileExists
    THEN [return |-> TRUE, filePath |-> Candidate(path, baseName, counter),
          counter |-> counter, timestamp |-> 0]
    ELSE IF counter + 1 < SafetyLimit
    THEN [return |-> FALSE, filePath |-> Candidate(path, baseName, counter + 1),
          counter |-> counter + 1, timestamp |-> 0]
    ELSE [return |-> TRUE, filePath |-> FallbackName(path, baseName, timestamp),
          counter |-> counter + 1, timestamp |-> timestamp]

\* Mutant of findAvailableFileName: the loop test is counter <= limit.
FindOneMoreProbe(path, baseName, counter, fileExists, timestamp) ==
    IF ~fileExists
    THEN [return |-> TRUE, filePath |-> Candidate(path, baseName, counter),
          counter |-> counter, timestamp |-> 0]
    ELSE IF counter + 1 <= SafetyLimit
    THEN [return |-> FALSE, filePath |-> Candidate(path, baseName, counter + 1),
          counter |-> counter + 1, timestamp |-> 0]
    ELSE [return |-> TRUE, filePath |-> FallbackName(path, baseName, timestamp),
          counter |-> counter + 1, timestamp |-> timestamp]

\* One turn of findAvailableFileName after the probe of the candidate numbered
\* counter answered fileExists: return a name, or probe the next candidate.
FindAvailableFileNameStep(path, baseName, counter, fileExists, timestamp) ==
    IF ~fileExists
    THEN [return |-> TRUE, filePath |-> Candidate(path, baseName, counter),
          counter |-> counter, timestamp |-> 0]
    ELSE IF counter + 1 < SafetyLimit
    THEN [return |-> FALSE, filePath |-> Candidate(path, baseName, counter + 1),
          counter |-> counter + 1, timestamp |-> 0]
    ELSE [return |-> TRUE, filePath |-> FallbackName(path, baseName, timestamp),
          counter |-> counter + 1, timestamp |-> timestamp]

\* Mutant of the daily path: the date of a clock one hour ahead of UTC.
DailyNotePathLocalTime(t) == SplitFirst(ToISOString(t + 3600000), "T") \o DotMd

\* today's date and the daily note's path.
DailyNotePath(t) == SplitFirst(ToISOString(t), "T") \o DotMd

\* Mutant of the daily plan: a PATCH whether or not the note exists, as in
\* the earlier revision (src/unnamed/part_000, lines 95-107).
DailyAlwaysPatch(vault, dailyNotePath, fileContent, behavior, dailyFileExists) ==
    IF behavior = "append-daily"
    THEN MutatingRequest("PATCH", BuildUrl(vault, dailyNotePath),
                         JsonEnvelope(fileContent, PositionEnd))
    ELSE MutatingRequest("PATCH", BuildUrl(vault, dailyNotePath),
                         JsonEnvelope(fileContent, PositionStart))

\* The plan of the daily branch once the probe answered dailyFileExists.
DailyPlan(vault, dailyNotePath, fileContent, behavior, dailyFileExists) ==
    IF ~dailyFileExists
    THEN MutatingRequest("POST", BuildUrl(vault, dailyNotePath), fileContent)
    ELSE IF behavior = "append-daily"
    THEN MutatingRequest("PATCH", BuildUrl(vault, dailyNotePath),
                         JsonEnvelope(fileContent, PositionEnd))
    ELSE MutatingRequest("PATCH", BuildUrl(vault, dailyNotePath),
                         JsonEnvelope(fileContent, PositionStart))

\* Mutant of the append plan: a PATCH whether or not the file exists, as in
\* the earlier revision (src/unnamed/part_000, lines 111-118).
AppendAlwaysPatch(vault, filePath, fileContent, appendFileExists) ==
    MutatingRequest("PATCH", BuildUrl(vault, filePath),
                    JsonEnvelope(fileContent, PositionEnd))

\* case 'append-specific', once the probe answered appendFileExists.
AppendPlan(vault, filePath, fileContent, appendFileExists) ==
    IF ~appendFileExists
    THEN MutatingRequest("POST", BuildUrl(vault, filePath), fileContent)
    ELSE MutatingRequest("PATCH", BuildUrl(vault, filePath),
                         JsonEnvelope(fileContent, PositionEnd))

\* Mutant of the prepend plan: the position of the append plan.
PrependAtEnd(vault, filePath, fileContent, prependFileExists) ==
    IF ~prependFileExists
    THEN MutatingRequest("POST", BuildUrl(vault, filePath), fileContent)
    ELSE MutatingRequest("PATCH", BuildUrl(vault, filePath),
                         JsonEnvelope(fileContent, PositionEnd))

\* case 'prepend-specific', once the probe answered prependFileExists.
PrependPlan(vault, filePath, fileContent, prependFileExists) ==
    IF ~prependFileExists
    THEN MutatingRequest("POST", BuildUrl(vault, filePath), fileContent)
    ELSE MutatingRequest("PATCH", BuildUrl(vault, filePath),
                         JsonEnvelope(fileContent, PositionStart))

\* Mutant of the overwrite plan: a POST in place of the PUT.
OverwriteAsPost(vault, path, formattedNoteName, fileContent) ==
    MutatingRequest("POST", BuildUrl(vault, path \o formattedNoteName \o DotMd),
                    fileContent)

\* case 'overwrite'.
OverwritePlan(vault, path, formattedNoteName, fileContent) ==
    MutatingRequest("PUT", BuildUrl(vault, path \o formattedNoteName \o DotMd),
                    fileContent)

\* default: 'create', with the name findAvailableFileName returned.
CreatePlan(vault, filePath, fileContent) ==
    MutatingRequest("POST", BuildUrl(vault, filePath), fileContent)

\* Mutant of the executor: no catch, so a rejected fetch leaves the call
\* without a result.
ResultRethrows(o) ==
    IF o.kind = "exception" THEN [success |-> FALSE, error |-> <<"pending">>]
    ELSE IF o.status \in 200..299 THEN [success |-> TRUE, error |-> <<>>]
    ELSE [success |-> FALSE,
          error |-> <<"H", "T", "T", "P", " ">> \o NumberToString(o.status)
                    \o <<":", " ">> \o o.text]

\* Mutant of the executor: success for every response, whatever its status.
ResultFromAnyResponse(o) ==
    IF o.kind = "exception" THEN [success |-> FALSE, error |-> o.text]
    ELSE [success |-> TRUE, error |-> NoText]

\* The result the executor returns for the outcome o of the mutating request.
ResultOf(o) ==
    IF o.kind = "exception" THEN [success |-> FALSE, error |-> o.text]
    ELSE IF Ok(o.status) THEN [success |-> TRUE, error |-> NoText]
    ELSE [success |-> FALSE,
          error |-> <<"H", "T", "T", "P", " ">> \o NumberToString(o.status)
                    \o <<":", " ">> \o o.text]

(***************************************************************************)
(* The steps of createNoteViaLocalRestApi.  An invocation runs from one    *)
(* await of fetch to the next; each action is the code between two awaits. *)
(***************************************************************************)
Issue(i, req) == log' = [log EXCEPT ![i] = Append(@, req)]

\* The log of invocation i with its pending request completed by outcome o.
Completed(i, o) ==
    [log[i] EXCEPT ![Len(log[i])] =
        [@ EXCEPT !.state = o.kind, !.status = o.status, !.text = o.text]]

\* The call: the gate, the normalisation, and the first request of the branch.
Invoke(i, fileContent, noteName, path, vault, behavior) ==
    /\ inv[i].pc = "idle"
    /\ LET called == [IdleInvocation EXCEPT
                        !.fileContent = fileContent, !.noteName = noteName,
                        !.pathArg = path, !.path = path, !.vault = vault,
                        !.behavior = behavior]
           p == NormalizePath(path)
           f == SanitizeFileName(noteName)
           r == [called EXCEPT !.path = p, !.formattedNoteName = f]
       IN  IF ~IsLocalRestApiAvailable
           THEN /\ inv' = [inv EXCEPT ![i] =
                              [called EXCEPT !.pc = "done", !.result = NotAvailable]]
                /\ UNCHANGED log
           ELSE IF IsDailyNote(behavior)
           THEN /\ inv' = [inv EXCEPT ![i] =
                              [r EXCEPT !.pc = "checkFileExists", !.at = "daily",
                                        !.date = now,
                                        !.filePath = DailyNotePath(now)]]
                /\ Issue(i, ProbeRequest(vault, DailyNotePath(now)))
           ELSE IF behavior = "append-specific"
           THEN /\ inv' = [inv EXCEPT ![i] =
                              [r EXCEPT !.pc = "checkFileExists",
                                        !.at = "append-specific",
                                        !.filePath = p \o f \o DotMd]]
                /\ Issue(i, ProbeRequest(vault, p \o f \o DotMd))
           ELSE IF behavior = "prepend-specific"
           THEN /\ inv' = [inv EXCEPT ![i] =
                              [r EXCEPT !.pc = "checkFileExists",
                                        !.at = "prepend-specific",
                                        !.filePath = p \o f \o DotMd]]
                /\ Issue(i, ProbeRequest(vault, p \o f \o DotMd))
           ELSE IF behavior = "overwrite"
           THEN /\ inv' = [inv EXCEPT ![i] =
                              [r EXCEPT !.pc = "fetch",
                                        !.filePath = p \o f \o DotMd]]
                /\ Issue(i, OverwritePlan(vault, p, f, fileContent))
           ELSE /\ inv' = [inv EXCEPT ![i] =
                              [r EXCEPT !.pc = "checkFileExists",
                                        !.at = "findAvailableFileName",
                                        !.filePath = Candidate(p, f, 0)]]
                /\ Issue(i, ProbeRequest(vault, Candidate(p, f, 0)))
    /\ UNCHANGED <<generalSettings, vaultDocs, now>>

\* The GET of checkFileExists completes with outcome o; the caller goes on to
\* its next request: another probe (findAvailableFileName) or the write.
ProbeDone(i, o) ==
    /\ inv[i].pc = "checkFileExists"
    /\ LET r == inv[i]
           fileExists == CheckFileExists(o)
           w == IF CheckFileExistsWarns(o) THEN r.warnings + 1 ELSE r.warnings
           step == FindAvailableFileNameStep(r.path, r.formattedNoteName,
                                             r.counter, fileExists, now)
           req == CASE r.at = "daily" ->
                         DailyPlan(r.vault, r.filePath, r.fileContent,
                                   r.behavior, fileExists)
                    [] r.at = "append-specific" ->
                         AppendPlan(r.vault, r.filePath, r.fileContent, fileExists)
                    [] r.at = "prepend-specific" ->
                         PrependPlan(r.vault, r.filePath, r.fileContent, fileExists)
                    [] OTHER ->
                         IF step.return
                         THEN CreatePlan(r.vault, step.filePath, r.fileContent)
                         ELSE ProbeRequest(r.vault, step.filePath)
       IN  /\ inv' = [inv EXCEPT ![i] =
                        IF r.at = "findAvailableFileName"
                        THEN [r EXCEPT !.warnings = w,
                                       !.fileExists = fileExists,
                                       !.filePath = step.filePath,
                                       !.counter = step.counter,
                                       !.timestamp = step.timestamp,
                                       !.pc = IF step.return THEN "fetch"
                                              ELSE "checkFileExists"]
                        ELSE [r EXCEPT !.warnings = w, !.fileExists = fileExists,
                                       !.pc = "fetch"]]
           /\ log' = [log EXCEPT ![i] = Append(Completed(i, o), req)]
    /\ UNCHANGED <<generalSettings, vaultDocs, now>>

\* The mutating request completes: the service has acted (w.docs) and the
\* invocation returns its result.
FetchDone(i, w) ==
    /\ inv[i].pc = "fetch"
    /\ inv' = [inv EXCEPT ![i] = [@ EXCEPT !.pc = "done",
                                           !.result = ResultOf(w.outcome)]]
    /\ log' = [log EXCEPT ![i] = Completed(i, w.outcome)]
    /\ vaultDocs' = w.docs
    /\ UNCHANGED <<generalSettings, now>>

\* A millisecond passes.
Tick ==
    /\ now < StartTime + MaxTicks
    /\ now' = now + 1
    /\ UNCHANGED <<generalSettings, vaultDocs, inv, log>>

Pending(i) == log[i][Len(log[i])]

(***************************************************************************)
(* Inputs and initial states.                                              *)
(***************************************************************************)
Contents == {<<"x">>, <<"{", "x">>}

NoteNames == {<<"n">>, <<"n", "?">>}

Paths == {<<>>, <<"d">>, <<"d", "/">>, <<"d", "/", "/">>}

Vaults == {<<>>, <<"V">>}

Urls == {<<>>, <<"h">>}

Keys == {<<>>, <<"k">>}

Settings == [localRestApiEnabled : BOOLEAN, localRestApiUrl : Urls,
             localRestApiKey : Keys]

OpenSettings == [localRestApiEnabled |-> TRUE, localRestApiUrl |-> <<"h">>,
                 localRestApiKey |-> <<"k">>]

\* A vault that holds documents: under vault V every candidate of d/n and the
\* unsuffixed n; without a vault the first two candidates of d/n; and under
\* vault V the daily note of the day the clock starts in.
SeededRemote ==
    {BuildUrl(<<"V">>, Candidate(<<"d", "/">>, <<"n">>, c)) : c \in 0..(SafetyLimit - 1)}
    \cup {BuildUrl(<<"V">>, Candidate(<<>>, <<"n">>, 0))}
    \cup {BuildUrl(<<>>, Candidate(<<"d", "/">>, <<"n">>, c)) : c \in 0..1}
    \cup {BuildUrl(<<"V">>, DailyNotePath(StartTime))}

InitInvocations ==
    /\ now = StartTime
    /\ inv = [i \in Ids |-> IdleInvocation]
    /\ log = [i \in Ids |-> <<>>]

\* One invocation, any configuration, any behaviour, a service that may fail.
Init ==
    /\ generalSettings \in Settings
    /\ vaultDocs \in {{}, SeededRemote}
    /\ InitInvocations

Call(i) ==
    \E fileContent \in Contents, noteName \in NoteNames, path \in Paths,
       vault \in Vaults, behavior \in Behaviors :
        Invoke(i, fileContent, noteName, path, vault, behavior)

ProbeAnswered(i) ==
    /\ inv[i].pc = "checkFileExists"
    /\ ProbeDone(i, RemoteGet(Pending(i).url))

ProbeFailed(i) ==
    \E o \in ProbeFaults : ProbeDone(i, o)

WriteAnswered(i) ==
    /\ inv[i].pc = "fetch"
    /\ FetchDone(i, RemoteWrite(Pending(i)))

WriteFailed(i) ==
    \E w \in WriteFaults : FetchDone(i, w)

Next ==
    \/ Call(1)
    \/ ProbeAnswered(1)
    \/ ProbeFailed(1)
    \/ WriteAnswered(1)
    \/ WriteFailed(1)
    \/ Tick

Spec == Init /\ [][Next]_vars

(***************************************************************************)
(* Vocabulary of the properties.                                           *)
(***************************************************************************)
Started(i) == inv[i].pc # "idle"

GateClosed ==
    \/ ~generalSettings.localRestApiEnabled
    \/ generalSettings.localRestApiUrl = <<>>
    \/ generalSettings.localRestApiKey = <<>>

IsProbe(e) == e.method = "GET"

IsMutating(e) == e.method \in {"POST", "PUT", "PATCH"}

ReportedPresent(e) == e.state = "response" /\ e.status \in 200..299

ReportedAbsent(e) == e.state \in {"response", "exception"} /\ ~ReportedPresent(e)

\* The URL of the document filePath of vault: /vault/<vault>/<path>, the vault
\* segment left out without a vault, each part percent-encoded.
TargetUrl(vault, filePath) ==
    generalSettings.localRestApiUrl \o VaultSegment
    \o (IF vault = <<>> THEN <<>> ELSE EncodeURIComponent(vault) \o <<"/">>)
    \o EncodeURIComponent(filePath)

\* <directoryPath><sanitizedNoteName>.md of invocation i.
RegularTarget(i) ==
    NormalizePath(inv[i].pathArg) \o SanitizeFileName(inv[i].noteName) \o DotMd

\* The UTC calendar date of the instant t, for the first two days of 1970.
UtcDate(t) ==
    IF t < MsPerDay THEN <<"1", "9", "7", "0", "-", "0", "1", "-", "0", "1">>
    ELSE <<"1", "9", "7", "0", "-", "0", "1", "-", "0", "2">>

Mutations(i) == {k \in 1..Len(log[i]) : IsMutating(log[i][k])}

Probes(i) == {k \in 1..Len(log[i]) : IsProbe(log[i][k])}

(***************************************************************************)
(* C1: with the integration disabled, or the endpoint URL empty, or the    *)
(* credential empty, an invocation of any behaviour has returned           *)
(* success=false with an error message and has issued no request at all.   *)
(***************************************************************************)
C1_ClosedGateNoRequest ==
    \A i \in Ids :
        (Started(i) /\ GateClosed) =>
            /\ inv[i].pc = "done"
            /\ inv[i].result.success = FALSE
            /\ inv[i].result.error # NoText
            /\ log[i] = <<>>

C1_Witness ==
    /\ inv[1].pc = "done"
    /\ inv[1].behavior = "append-daily"
    /\ generalSettings.localRestApiEnabled
    /\ generalSettings.localRestApiUrl # <<>>
    /\ generalSettings.localRestApiKey = <<>>
    /\ ~inv[1].result.success

(***************************************************************************)
(* C2: with the gate open, an overwrite invocation issues no GET and       *)
(* exactly one request, a PUT of the raw document body to                  *)
(* <directoryPath><sanitizedNoteName>.md, whatever the vault holds.        *)
(***************************************************************************)
C2_OverwriteOnePut ==
    \A i \in Ids :
        (Started(i) /\ ~GateClosed /\ inv[i].behavior = "overwrite") =>
            /\ Len(log[i]) = 1
            /\ log[i][1].method = "PUT"
            /\ log[i][1].body = inv[i].fileContent
            /\ log[i][1].url = TargetUrl(inv[i].vault, RegularTarget(i))

C2_Witness ==
    /\ inv[1].pc = "done"
    /\ inv[1].behavior = "overwrite"
    /\ inv[1].pathArg = <<"d">>
    /\ inv[1].noteName = <<"n", "?">>
    /\ Len(log[1]) = 1
    /\ log[1][1].method = "PUT"
    /\ log[1][1].url \in SeededRemote
    /\ vaultDocs = SeededRemote

(***************************************************************************)
(* C3: for append-specific and prepend-specific, when the probe of         *)
(* <directoryPath><sanitizedNoteName>.md reports the target absent, the    *)
(* single mutating request is a POST of the raw body to that path.         *)
(***************************************************************************)
C3_SpecificAbsentPosts ==
    \A i \in Ids :
        (/\ inv[i].behavior \in {"append-specific", "prepend-specific"}
         /\ Len(log[i]) >= 1
         /\ ReportedAbsent(log[i][1])) =>
            /\ log[i][1].method = "GET"
            /\ log[i][1].url = TargetUrl(inv[i].vault, RegularTarget(i))
            /\ Len(log[i]) = 2
            /\ log[i][2].method = "POST"
            /\ log[i][2].body = inv[i].fileContent
            /\ log[i][2].url = log[i][1].url

C3_Witness ==
    /\ inv[1].pc = "done"
    /\ inv[1].behavior = "prepend-specific"
    /\ Len(log[1]) = 2
    /\ log[1][1].status = 404
    /\ log[1][2].method = "POST"
    /\ inv[1].result.success

(***************************************************************************)
(* C4: for append-specific and prepend-specific, when the probe reports    *)
(* the target present, the single mutating request is a PATCH whose body   *)
(* is the JSON {content: <body>, position: p}, p = "end" for append and    *)
(* "start" for prepend.                                                    *)
(***************************************************************************)
C4_SpecificPresentPatches ==
    \A i \in Ids :
        (/\ inv[i].behavior \in {"append-specific", "prepend-specific"}
         /\ Len(log[i]) >= 1
         /\ ReportedPresent(log[i][1])) =>
            /\ Len(log[i]) = 2
            /\ log[i][2].method = "PATCH"
            /\ log[i][2].url = log[i][1].url
            /\ log[i][2].body =
                 JsonEnvelope(inv[i].fileContent,
                              IF inv[i].behavior = "append-specific"
                              THEN <<"e", "n", "d">>
                              ELSE <<"s", "t", "a", "r", "t">>)

C4_Witness ==
    /\ inv[1].pc = "done"
    /\ inv[1].behavior = "prepend-specific"
    /\ Len(log[1]) = 2
    /\ log[1][1].status = 200
    /\ log[1][2].method = "PATCH"
    /\ inv[1].result.success

(***************************************************************************)
(* C5: for append-daily and prepend-daily, the probe and the mutating      *)
(* request both target <UTC date of the call as YYYY-MM-DD>.md at the      *)
(* vault root, whatever directory path and note name the caller gave.      *)
(***************************************************************************)
C5_DailyTargetsToday ==
    \A i \in Ids :
        (IsDailyNote(inv[i].behavior) /\ Len(log[i]) >= 1) =>
            /\ log[i][1].method = "GET"
            /\ log[i][1].url = TargetUrl(inv[i].vault, UtcDate(inv[i].date) \o DotMd)
            /\ (now = StartTime => inv[i].date = now)
            /\ \A k \in 1..Len(log[i]) : log[i][k].url = log[i][1].url

C5_Witness ==
    /\ inv[1].pc = "done"
    /\ inv[1].behavior = "append-daily"
    /\ inv[1].pathArg = <<"d">>
    /\ inv[1].date > StartTime
    /\ Len(log[1]) = 2
    /\ log[1][2].url = TargetUrl(inv[1].vault,
           <<"1", "9", "7", "0", "-", "0", "1", "-", "0", "2">> \o DotMd)

(***************************************************************************)
(* C6: for append-daily and prepend-daily, a daily note reported absent    *)
(* gets a POST of the raw body (both behaviours alike); one reported       *)
(* present gets a PATCH with position "end" for append-daily and "start"   *)
(* for prepend-daily.                                                      *)
(***************************************************************************)
C6_DailyPlan ==
    \A i \in Ids :
        (/\ IsDailyNote(inv[i].behavior)
         /\ Len(log[i]) >= 1
         /\ log[i][1].state # "pending") =>
            /\ Len(log[i]) = 2
            /\ IF ReportedPresent(log[i][1])
               THEN /\ log[i][2].method = "PATCH"
                    /\ log[i][2].body =
                         JsonEnvelope(inv[i].fileContent,
                                      IF inv[i].behavior = "append-daily"
                                      THEN <<"e", "n", "d">>
                                      ELSE <<"s", "t", "a", "r", "t">>)
               ELSE /\ log[i][2].method = "POST"
                    /\ log[i][2].body = inv[i].fileContent

C6_Witness ==
    /\ inv[1].pc = "done"
    /\ inv[1].behavior = "prepend-daily"
    /\ Len(log[1]) = 2
    /\ log[1][1].status = 200
    /\ log[1][2].method = "PATCH"
    /\ inv[1].result.success

(***************************************************************************)
(* Successive create calls against a healthy service: every probe is       *)
(* answered truthfully and every write succeeds, and a call starts only    *)
(* when the calls before it have returned.                                 *)
(***************************************************************************)
SeqPaths == {<<"d">>, <<"d", "/">>}

CreateCall(i) ==
    \E noteName \in NoteNames, path \in SeqPaths, vault \in Vaults :
        Invoke(i, <<"x">>, noteName, path, vault, "create")

SeqCall(i) ==
    /\ \A j \in Ids : j < i => inv[j].pc = "done"
    /\ CreateCall(i)

SeqNext ==
    \/ \E i \in Ids : SeqCall(i)
    \/ \E i \in Ids : ProbeAnswered(i)
    \/ \E i \in Ids : WriteAnswered(i)
    \/ Tick

\* The vault holds no document at the start.
SeqInit ==
    /\ generalSettings = OpenSettings
    /\ vaultDocs = {}
    /\ InitInvocations

SeqSpec == SeqInit /\ [][SeqNext]_vars

\* A seeded vault that also holds, under vault V, the name the fallback of
\* findAvailableFileName gives d/n at the instant the clock starts at.
SeededWithTimestampName ==
    SeededRemote
    \cup {BuildUrl(<<"V">>, FallbackName(<<"d", "/">>, <<"n">>, StartTime))}

\* The vault holds any documents at the start.
TruthfulInit ==
    /\ generalSettings = OpenSettings
    /\ vaultDocs \in {{}, SeededRemote, SeededWithTimestampName}
    /\ InitInvocations

TruthfulSpec == TruthfulInit /\ [][SeqNext]_vars

(***************************************************************************)
(* Two create calls in flight at once against a healthy service.           *)
(***************************************************************************)
ConcIds == {1, 2}

ConcNext ==
    \/ \E i \in ConcIds : CreateCall(i)
    \/ \E i \in ConcIds : ProbeAnswered(i)
    \/ \E i \in ConcIds : WriteAnswered(i)
    \/ Tick

ConcSpec == TruthfulInit /\ [][ConcNext]_vars

\* The destination of invocation i: vault, directory, base name.
Dest(i) == <<inv[i].vault, NormalizePath(inv[i].pathArg),
             SanitizeFileName(inv[i].noteName)>>

\* Invocation i has issued its mutating request.
Wrote(i) == inv[i].pc \in {"fetch", "done"} /\ Len(log[i]) >= 1
            /\ IsMutating(log[i][Len(log[i])])

WriteUrl(i) == log[i][Len(log[i])].url

\* The k-th name in the order <dir><name>.md, <dir><name> 1.md, ...
NthName(i, k) ==
    NormalizePath(inv[i].pathArg) \o SanitizeFileName(inv[i].noteName)
    \o (IF k = 1 THEN <<>> ELSE <<" ">> \o NumberToString(k - 1)) \o DotMd

\* Invocation i took the timestamp fallback: every candidate was probed and
\* every probe reported present.
TookFallback(i) ==
    /\ Len(log[i]) = SafetyLimit + 1
    /\ \A k \in 1..SafetyLimit : ReportedPresent(log[i][k])

(***************************************************************************)
(* C7: on a vault that holds no document at the start, successive create   *)
(* calls with the same vault, directory and base name write to pairwise    *)
(* distinct paths: the first to <dir><name>.md, the second to              *)
(* <dir><name> 1.md, the k-th (k up to the safety limit) to suffix k-1.    *)
(***************************************************************************)
C7_SuccessiveCreatesDistinct ==
    /\ \A i \in Ids : Wrote(i) =>
          LET k == Cardinality({j \in 1..i : Dest(j) = Dest(i)})
          IN  k <= SafetyLimit =>
                WriteUrl(i) = TargetUrl(inv[i].vault, NthName(i, k))
    /\ \A i, j \in Ids :
          (i < j /\ Wrote(i) /\ Wrote(j) /\ Dest(i) = Dest(j)) =>
              WriteUrl(i) # WriteUrl(j)

C7_Witness ==
    /\ inv[1].pc = "done" /\ inv[2].pc = "done"
    /\ Dest(1) = Dest(2)
    /\ WriteUrl(1) = TargetUrl(<<"V">>, <<"d", "/", "n", ".", "m", "d">>)
    /\ WriteUrl(2) = TargetUrl(<<"V">>, <<"d", "/", "n", " ", "1", ".", "m", "d">>)
    /\ inv[1].result.success /\ inv[2].result.success

(***************************************************************************)
(* C8: findAvailableFileName probes <dir><name>.md, <dir><name> 1.md,      *)
(* <dir><name> 2.md, ... in that order and returns the first candidate     *)
(* reported absent: every earlier candidate was probed and reported        *)
(* present, and no later candidate is probed.                              *)
(***************************************************************************)
C8_FirstAbsentCandidate ==
    \A i \in Ids :
        (inv[i].behavior = "create" /\ Len(log[i]) >= 1) =>
            LET n == Len(log[i])
                p == IF IsMutating(log[i][n]) THEN n - 1 ELSE n
            IN  /\ p >= 1
                /\ \A k \in 1..p :
                      /\ log[i][k].method = "GET"
                      /\ log[i][k].url = TargetUrl(inv[i].vault, NthName(i, k))
                /\ \A k \in 1..(p - 1) : ReportedPresent(log[i][k])
                /\ (p < n /\ ~TookFallback(i)) =>
                      /\ ReportedAbsent(log[i][p])
                      /\ log[i][n].method = "POST"
                      /\ log[i][n].url = log[i][p].url
                /\ (p = n /\ log[i][n].state # "pending") =>
                      ReportedAbsent(log[i][n])

C8_Witness ==
    /\ inv[1].pc = "done"
    /\ inv[1].behavior = "create"
    /\ Len(log[1]) = 4
    /\ ReportedPresent(log[1][1])
    /\ ReportedPresent(log[1][2])
    /\ log[1][3].status = 404
    /\ log[1][4].method = "POST"
    /\ log[1][4].url = TargetUrl(<<>>, <<"d", "/", "n", " ", "2", ".", "m", "d">>)

(***************************************************************************)
(* C9 as claimed: with no concurrent writer and a truthful prober, the     *)
(* POST of a create call never targets a path that holds a document when   *)
(* the POST is issued, also when every probed candidate is taken.          *)
(***************************************************************************)
C9_PostNeverHitsDocument ==
    \A i \in Ids :
        (inv[i].behavior = "create" /\ inv[i].pc = "fetch") =>
            Pending(i).url \notin vaultDocs

(***************************************************************************)
(* C9 amended: with no concurrent writer and a truthful prober, the POST   *)
(* of a create call never targets a path that holds a document when the    *)
(* POST is issued, unless every probed candidate was reported present and  *)
(* the unprobed timestamp name is used.                                    *)
(***************************************************************************)
C9_PostAvoidsDocumentUnlessFallback ==
    \A i \in Ids :
        (inv[i].behavior = "create" /\ inv[i].pc = "fetch" /\ ~TookFallback(i)) =>
            /\ Pending(i).method = "POST"
            /\ Pending(i).url \notin vaultDocs

C9_Witness ==
    /\ inv[2].pc = "fetch"
    /\ inv[2].behavior = "create"
    /\ Dest(1) = Dest(2)
    /\ Len(log[2]) = 3
    /\ ReportedPresent(log[2][1])
    /\ ReportedAbsent(log[2][2])
    /\ Pending(2).url \notin vaultDocs
    /\ WriteUrl(1) \in vaultDocs

(***************************************************************************)
(* C10 as claimed: two create calls for the same vault, directory and base *)
(* name that run at the same time write to different paths in every        *)
(* interleaving.                                                           *)
(***************************************************************************)
C10_ConcurrentCreatesDistinct ==
    \A i, j \in ConcIds :
        (i # j /\ Wrote(i) /\ Wrote(j) /\ Dest(i) = Dest(j)) =>
            WriteUrl(i) # WriteUrl(j)

(***************************************************************************)
(* C10 amended: two create calls for the same vault, directory and base    *)
(* name that run at the same time may both observe "absent" and both       *)
(* succeed; the one whose last probe is answered after the other's POST    *)
(* has created its document writes to a different path (outside the        *)
(* timestamp fallback).  Nothing keeps the two paths apart when both last  *)
(* probes are answered before either POST.                                 *)
(***************************************************************************)
C10_LateProbeAvoidsCollision ==
    [][\A i, j \in ConcIds :
          (/\ i # j
           /\ inv[i].pc = "done"
           /\ inv[i].result.success
           /\ inv[j].pc = "checkFileExists"
           /\ inv'[j].pc = "fetch"
           /\ Dest(i) = Dest(j)
           /\ ~TookFallback(j)')
          => WriteUrl(j)' # WriteUrl(i)]_vars

C10_Witness ==
    /\ inv[1].pc = "done" /\ inv[2].pc = "done"
    /\ Dest(1) = Dest(2)
    /\ inv[1].result.success /\ inv[2].result.success
    /\ log[1][1].status = 404
    /\ log[2][1].status = 200
    /\ log[2][2].status = 404
    /\ WriteUrl(1) # WriteUrl(2)

(***************************************************************************)
(* C11: with the gate open the result is decided by the outcome of the     *)
(* single mutating request alone: success=true exactly for a 2xx status,   *)
(* error "HTTP <status>: <body text>" for any other status, the            *)
(* exception's message for a transport exception.  No probe outcome ends   *)
(* the invocation.                                                         *)
(***************************************************************************)
C11_ResultFromMutatingRequest ==
    \A i \in Ids :
        (Started(i) /\ ~GateClosed) =>
            /\ Len(log[i]) >= 1
            /\ (inv[i].pc # "done") = (log[i][Len(log[i])].state = "pending")
            /\ inv[i].pc # "done" => inv[i].result = NoResult
            /\ inv[i].pc = "done" =>
                 LET e == log[i][Len(log[i])]
                 IN  /\ IsMutating(e)
                     /\ inv[i].result.success =
                          (e.state = "response" /\ e.status \in 200..299)
                     /\ (e.state = "response" /\ e.status \notin 200..299) =>
                          inv[i].result.error =
                            <<"H", "T", "T", "P", " ">> \o NumberToString(e.status)
                            \o <<":", " ">> \o e.text
                     /\ e.state = "exception" => inv[i].result.error = e.text

C11_Witness ==
    /\ inv[1].pc = "done"
    /\ inv[1].behavior = "append-specific"
    /\ Len(log[1]) = 2
    /\ log[1][1].state = "exception"
    /\ log[1][2].status = 500
    /\ inv[1].result.error = <<"H", "T", "T", "P", " ", "5", "0", "0", ":", " ", "e">>

(***************************************************************************)
(* C12: checkFileExists returns true exactly for a 2xx answer; false for   *)
(* 404 without a warning; false with a warning for any other non-2xx       *)
(* status and for a transport exception; it never throws, so its caller    *)
(* always goes on to the next request.                                     *)
(***************************************************************************)
AnsweredProbes(i) == {k \in Probes(i) : log[i][k].state # "pending"}

Ambiguous(e) ==
    \/ e.state = "exception"
    \/ e.state = "response" /\ e.status \notin 200..299 /\ e.status # 404

C12_ProbeAnswer ==
    \A i \in Ids :
        AnsweredProbes(i) # {} =>
            LET last == CHOOSE k \in AnsweredProbes(i) :
                            \A m \in AnsweredProbes(i) : m <= k
            IN  /\ inv[i].fileExists = ReportedPresent(log[i][last])
                /\ inv[i].warnings =
                     Cardinality({k \in AnsweredProbes(i) : Ambiguous(log[i][k])})
                /\ Len(log[i]) > last
                /\ inv[i].pc \in {"checkFileExists", "fetch", "done"}

C12_Witness ==
    /\ inv[1].behavior = "create"
    /\ Len(log[1]) = 3
    /\ log[1][1].status = 200
    /\ log[1][2].status = 500
    /\ vaultDocs = SeededRemote
    /\ inv[1].warnings = 1
    /\ ~inv[1].fileExists

(***************************************************************************)
(* C13: with the gate open, probes are issued one at a time and each is    *)
(* answered before the next request; exactly one mutating request is       *)
(* issued and it is the last request, whether it succeeds or fails; the    *)
(* number of probes is 0 for overwrite, 1 for the append and prepend       *)
(* behaviours, and from 1 to the safety limit for create.                  *)
(***************************************************************************)
C13_ProbesThenOneWrite ==
    \A i \in Ids :
        (Started(i) /\ ~GateClosed) =>
            LET n == Len(log[i])
            IN  /\ n >= 1
                /\ \A k \in 1..(n - 1) :
                     IsProbe(log[i][k]) /\ log[i][k].state # "pending"
                /\ inv[i].pc = "checkFileExists" =>
                     IsProbe(log[i][n]) /\ log[i][n].state = "pending"
                /\ inv[i].pc = "fetch" =>
                     IsMutating(log[i][n]) /\ log[i][n].state = "pending"
                /\ inv[i].pc = "done" =>
                     IsMutating(log[i][n]) /\ log[i][n].state # "pending"
                /\ Cardinality(Mutations(i)) <= 1
                /\ CASE inv[i].behavior = "overwrite" -> Probes(i) = {}
                     [] inv[i].behavior = "create" ->
                          Cardinality(Probes(i)) \in 1..SafetyLimit
                     [] OTHER -> Cardinality(Probes(i)) = 1

C13_Witness ==
    /\ inv[1].pc = "done"
    /\ inv[1].behavior = "create"
    /\ Cardinality(Probes(1)) = SafetyLimit
    /\ Cardinality(Mutations(1)) = 1
    /\ log[1][Len(log[1])].state = "exception"
    /\ ~inv[1].result.success

(***************************************************************************)
(* C14: findAvailableFileName issues at most as many probes as the safety  *)
(* limit (the unsuffixed candidate and the suffixes below the limit), and  *)
(* when all of them are reported present it returns                        *)
(* <dir><name> <millisecond timestamp>.md without probing that path.       *)
(***************************************************************************)
C14_BoundedProbesThenTimestamp ==
    \A i \in Ids :
        (inv[i].behavior = "create" /\ Len(log[i]) >= 1) =>
            /\ Cardinality(Probes(i)) <= SafetyLimit
            /\ (/\ Len(log[i]) >= SafetyLimit
                /\ \A k \in 1..SafetyLimit : ReportedPresent(log[i][k])) =>
                  /\ Len(log[i]) = SafetyLimit + 1
                  /\ log[i][SafetyLimit + 1].method = "POST"
                  /\ inv[i].timestamp \in StartTime..now
                  /\ (now = StartTime => inv[i].timestamp = now)
                  /\ log[i][SafetyLimit + 1].url =
                       TargetUrl(inv[i].vault,
                                 NormalizePath(inv[i].pathArg)
                                 \o SanitizeFileName(inv[i].noteName) \o <<" ">>
                                 \o NumberToString(inv[i].timestamp) \o DotMd)
                  /\ \A k \in 1..SafetyLimit :
                       log[i][k].url # log[i][SafetyLimit + 1].url

C14_Witness ==
    /\ inv[1].pc = "done"
    /\ inv[1].behavior = "create"
    /\ TookFallback(1)
    /\ inv[1].timestamp = StartTime + 1
    /\ inv[1].result.success

(***************************************************************************)
(* C15: a probe that fails ambiguously (a non-2xx status other than 404,   *)
(* or a transport exception) does not abort the placement: the path counts *)
(* as absent, so the next request is a POST of the raw body to the probed  *)
(* path, for the append, prepend and daily behaviours and for create, also *)
(* when the vault holds a document at that path.                           *)
(***************************************************************************)
C15_AmbiguousProbeMeansAbsent ==
    \A i \in Ids :
        \A k \in AnsweredProbes(i) :
            Ambiguous(log[i][k]) =>
                /\ Len(log[i]) = k + 1
                /\ log[i][k + 1].method = "POST"
                /\ log[i][k + 1].body = inv[i].fileContent
                /\ log[i][k + 1].url = log[i][k].url
                /\ inv[i].pc = "done" =>
                     inv[i].result = ResultOf([kind |-> log[i][k + 1].state,
                                               status |-> log[i][k + 1].status,
                                               text |-> log[i][k + 1].text])

C15_Witness ==
    /\ inv[1].pc = "done"
    /\ inv[1].behavior = "create"
    /\ Len(log[1]) = 2
    /\ log[1][1].status = 500
    /\ log[1][1].url \in SeededRemote
    /\ vaultDocs = SeededRemote
    /\ log[1][2].method = "POST"
    /\ inv[1].result.success

(***************************************************************************)
(* C16: the Content-Type of the mutating request is application/json       *)
(* exactly when the request is a PATCH carrying the JSON envelope, and     *)
(* text/markdown for every raw-body POST and PUT, also for a document body *)
(* that begins with the character '{'.                                     *)
(***************************************************************************)
C16_ContentTypeByPayload ==
    \A i \in Ids :
        \A k \in Mutations(i) :
            log[i][k].contentType =
                IF log[i][k].method = "PATCH" THEN "application/json"
                ELSE "text/markdown"

\* The number of '/' a string ends with.
RECURSIVE TrailingSlashes(_)
TrailingSlashes(s) ==
    IF s = <<>> \/ Last(s) # "/" THEN 0
    ELSE 1 + TrailingSlashes(SubSeq(s, 1, Len(s) - 1))

\* A string without the '/' it ends with.
StripSlashes(s) == SubSeq(s, 1, Len(s) - TrailingSlashes(s))

\* The directory path invocation i builds its regular target with.
UsedRegularPath(i) ==
    /\ Started(i)
    /\ ~GateClosed
    /\ ~IsDailyNote(inv[i].behavior)

(***************************************************************************)
(* C17 as claimed: every non-empty directory path, as used to build the    *)
(* target of a regular behaviour, ends with exactly one '/', also when the *)
(* caller's path already ends with one or more '/'.                        *)
(***************************************************************************)
C17_ExactlyOneSlash ==
    \A i \in Ids :
        (UsedRegularPath(i) /\ inv[i].pathArg # <<>>) =>
            TrailingSlashes(inv[i].path) = 1

(***************************************************************************)
(* C17 amended: a non-empty directory path that does not end with '/' is   *)
(* used with exactly one '/' appended; one that already ends with '/' is   *)
(* used unchanged, with as many '/' as the caller gave; an empty path      *)
(* contributes no separator.                                               *)
(***************************************************************************)
C17_SlashAppendedWhenMissing ==
    \A i \in Ids :
        UsedRegularPath(i) =>
            /\ Len(log[i]) >= 1
            /\ log[i][1].url =
                 TargetUrl(inv[i].vault,
                           inv[i].path \o SanitizeFileName(inv[i].noteName) \o DotMd)
            /\ StripSlashes(inv[i].path) = StripSlashes(inv[i].pathArg)
            /\ TrailingSlashes(inv[i].path) =
                 IF inv[i].pathArg = <<>> THEN 0
                 ELSE IF TrailingSlashes(inv[i].pathArg) = 0 THEN 1
                 ELSE TrailingSlashes(inv[i].pathArg)

C17_Witness ==
    /\ inv[1].pc = "done"
    /\ inv[1].behavior = "overwrite"
    /\ inv[1].pathArg = <<"d", "/", "/">>
    /\ inv[1].vault = <<"V">>
    /\ Len(log[1]) = 1
    /\ log[1][1].url = <<"h">> \o VaultSegment
         \o <<"V", "/", "d", "%", "2", "F", "%", "2", "F", "n", ".", "m", "d">>

(***************************************************************************)
(* Two calls of any behaviour in flight at once against a healthy service  *)
(* whose vault holds the seeded documents.                                 *)
(***************************************************************************)
ParNames == {<<"n">>, <<"m">>}

ParPaths == {<<>>, <<"d">>}

ParCall(i) ==
    \E noteName \in ParNames, path \in ParPaths, behavior \in Behaviors :
        Invoke(i, <<"x">>, noteName, path, <<"V">>, behavior)

ParNext ==
    \/ \E i \in ConcIds : ParCall(i)
    \/ \E i \in ConcIds : ProbeAnswered(i)
    \/ \E i \in ConcIds : WriteAnswered(i)
    \/ Tick

ParInit ==
    /\ generalSettings = OpenSettings
    /\ vaultDocs = SeededRemote
    /\ InitInvocations

ParSpec == ParInit /\ [][ParNext]_vars

\* What a request of an invocation that runs alone against a vault that
\* holds docs is and is answered: a GET is answered by what the vault held
\* at the start.
ExpGet(u, docs) ==
    [method |-> "GET", url |-> u, body |-> NoText,
     status |-> IF u \in docs THEN 200 ELSE 404]

ExpWrite(method, u, body, status) ==
    [method |-> method, url |-> u, body |-> body, status |-> status]

\* Probe of u, then PATCH of the envelope when held, POST of the body if not.
ExpPlace(i, u, docs) ==
    <<ExpGet(u, docs),
      IF u \in docs
      THEN ExpWrite("PATCH", u,
                    JsonEnvelope(inv[i].fileContent,
                                 IF inv[i].behavior \in {"prepend-specific",
                                                         "prepend-daily"}
                                 THEN PositionStart ELSE PositionEnd),
                    200)
      ELSE ExpWrite("POST", u, inv[i].fileContent, 204)>>

\* Probes of the names in order up to the first the vault does not hold,
\* then the POST there; all held: the POST to the timestamp name.
ExpCreate(i, docs) ==
    LET N == [k \in 1..SafetyLimit |-> TargetUrl(inv[i].vault, NthName(i, k))]
        free == {k \in 1..SafetyLimit : N[k] \notin docs}
        m == IF free = {} THEN SafetyLimit
             ELSE CHOOSE k \in free : \A l \in free : k <= l
        target == IF free # {} THEN N[m]
                  ELSE TargetUrl(inv[i].vault,
                                 NormalizePath(inv[i].pathArg)
                                 \o SanitizeFileName(inv[i].noteName) \o <<" ">>
                                 \o NumberToString(inv[i].timestamp) \o DotMd)
    IN  [k \in 1..(m + 1) |->
            IF k <= m THEN ExpGet(N[k], docs)
            ELSE ExpWrite("POST", target, inv[i].fileContent, 204)]

\* The requests invocation i issues, and their answers, when it runs alone
\* against a vault that holds docs.
Alone(i, docs) ==
    CASE inv[i].behavior = "overwrite" ->
           <<ExpWrite("PUT", TargetUrl(inv[i].vault, RegularTarget(i)),
                      inv[i].fileContent, 204)>>
      [] inv[i].behavior = "create" -> ExpCreate(i, docs)
      [] IsDailyNote(inv[i].behavior) ->
           ExpPlace(i, TargetUrl(inv[i].vault, UtcDate(inv[i].date) \o DotMd), docs)
      [] OTHER -> ExpPlace(i, TargetUrl(inv[i].vault, RegularTarget(i)), docs)

\* For each invocation in flight or returned, what it does alone against the
\* seeded vault; nothing for one that has not been called.
AloneAll ==
    LET docs == SeededRemote
    IN  [i \in ConcIds |-> IF Started(i) THEN Alone(i, docs) ELSE <<>>]

UrlsOf(a) == {a[k].url : k \in 1..Len(a)}

\* Request e of a log is the request x, with x's answer once it is answered.
SameRequest(e, x) ==
    /\ e.method = x.method
    /\ e.url = x.url
    /\ e.body = x.body
    /\ e.state # "pending" => (e.state = "response" /\ e.status = x.status)

\* Invocation i has so far done what it does alone, a.
AsAlone(i, a) ==
    /\ Len(log[i]) <= Len(a)
    /\ \A k \in 1..Len(log[i]) : SameRequest(log[i][k], a[k])
    /\ inv[i].pc = "done" =>
          /\ Len(log[i]) = Len(a)
          /\ inv[i].result.success

\* The other invocations target other remote paths than invocation i.
TargetsApart(i, all) ==
    \A j \in ConcIds \ {i} : UrlsOf(all[i]) \cap UrlsOf(all[j]) = {}

(***************************************************************************)
(* C18: concurrent invocations that target different remote paths do not   *)
(* interfere: in every interleaving each issues the requests, gets the     *)
(* answers and returns the result it would alone against the same          *)
(* documents; and no step changes the configuration or the state of an     *)
(* invocation other than the one that takes the step.                      *)
(***************************************************************************)
C18_DisjointCallsIndependent ==
    /\ [](LET all == AloneAll
          IN  \A i \in ConcIds :
                 (Started(i) /\ TargetsApart(i, all)) => AsAlone(i, all[i]))
    /\ [][/\ generalSettings' = generalSettings
          /\ \A i \in Ids :
                (inv'[i] # inv[i] \/ log'[i] # log[i]) =>
                    \A j \in Ids \ {i} : inv'[j] = inv[j] /\ log'[j] = log[j]]_vars

C18_Witness ==
    /\ inv[1].pc = "fetch" /\ inv[2].pc = "fetch"
    /\ Len(log[1]) = 2 /\ Len(log[2]) = 2
    /\ inv[1].behavior = "append-specific" /\ inv[2].behavior = "create"
    /\ log[1][2].method = "PATCH" /\ log[2][2].method = "POST"
    /\ TargetsApart(1, AloneAll)
    /\ vaultDocs = SeededRemote

\* Invocation i has probed and has issued its mutating request.
ProbedThenWrote(i) == Wrote(i) /\ Len(log[i]) >= 2

(***************************************************************************)
(* C19: in every invocation that probes, the URL of the mutating request   *)
(* is the URL of the last existence probe (same vault segment, left out of *)
(* both without a vault, same encoded path), except in the timestamp       *)
(* fallback of create; for create outside the fallback, that last probe is *)
(* the one that reported absent.                                           *)
(***************************************************************************)
C19_WriteUrlIsLastProbeUrl ==
    \A i \in Ids :
        (ProbedThenWrote(i) /\ ~TookFallback(i)) =>
            LET n == Len(log[i])
            IN  /\ IsProbe(log[i][n - 1])
                /\ log[i][n].url = log[i][n - 1].url
                /\ log[i][n].url = TargetUrl(inv[i].vault, inv[i].filePath)
                /\ inv[i].behavior = "create" =>
                      /\ ReportedAbsent(log[i][n - 1])
                      /\ \A k \in 1..(n - 2) : ReportedPresent(log[i][k])

C19_Witness ==
    /\ ProbedThenWrote(1)
    /\ ~TookFallback(1)
    /\ inv[1].behavior = "create"
    /\ inv[1].vault = <<>>
    /\ Len(log[1]) = 3
    /\ ReportedPresent(log[1][1])
    /\ log[1][3].url = log[1][2].url
    /\ log[1][3].url = <<"h">> \o VaultSegment
         \o <<"d", "%", "2", "F", "n", "%", "2", "0", "1", ".", "m", "d">>

(***************************************************************************)
(* One invocation, where every request that was issued is eventually       *)
(* answered or fails: fetch settles its promise.                           *)
(***************************************************************************)
LiveSpec ==
    /\ Init
    /\ [][Next]_vars
    /\ WF_vars(ProbeAnswered(1) \/ ProbeFailed(1))
    /\ WF_vars(WriteAnswered(1) \/ WriteFailed(1))

\* Invocation i has returned {success, error?} to its caller.
Returned(i) ==
    /\ inv[i].pc = "done"
    /\ inv[i].result # NoResult
    /\ inv[i].result.success \in BOOLEAN
    /\ ~inv[i].result.success => inv[i].result.error # <<>>

(***************************************************************************)
(* C20: provided every issued request is eventually answered or fails,     *)
(* every invocation eventually returns a result {success, error?}, for     *)
(* every behaviour and every remote state; it never ends without one.      *)
(***************************************************************************)
C20_EveryCallReturns ==
    /\ [](\A i \in Ids :
            /\ inv[i].pc \in {"idle", "checkFileExists", "fetch", "done"}
            /\ inv[i].pc = "done" => Returned(i))
    /\ \A i \in Ids : Started(i) ~> Returned(i)

C20_Witness ==
    /\ Returned(1)
    /\ inv[1].behavior = "create"
    /\ Len(log[1]) = SafetyLimit + 1
    /\ TookFallback(1)
    /\ log[1][SafetyLimit + 1].state = "exception"
    /\ inv[1].result = [success |-> FALSE, error |-> ExceptionMessage]

====
